---------------------------- MODULE Spec2Model ----------------------------
(***************************************************************************)
(* GreenletQueuePool (src/gevent_queuepool/greenlet_queuepool.py): a       *)
(* bounded idle queue of connections plus an overflow counter guarded by   *)
(* a semaphore.                                                            *)
(*                                                                         *)
(* Tasks call _do_get (acquire), _do_return_conn (release) and dispose.    *)
(* A step of the model is one access to the shared state (the queue, the   *)
(* counter, the semaphore) or one external call (the creator, close());    *)
(* the scheduler may switch tasks between any two steps.  The timeout of   *)
(* a blocking Queue.get is an event that may fire while the task waits     *)
(* and the queue is empty.                                                 *)
(* Runs are bounded by the number of calls the tasks make in total         *)
(* (MaxCalls) and by the number of connections the creator can return      *)
(* (MaxConns); past MaxConns the creator only raises.                      *)
(*                                                                         *)
(* Spec follows pools with a size limit under all three calls; AnySize     *)
(* adds pool_size = 0 (a queue without a limit) for acquire and release,   *)
(* ScenarioC is pool_size = 0 with max_overflow = -1, and SingletonSpec    *)
(* adds recreate() and further construction requests, which go through     *)
(* the Singleton metaclass.                                                *)
(***************************************************************************)
EXTENDS Integers, Sequences, FiniteSets

\* ---- bounds of the model ------------------------------------------------
NumTasks == 2
MaxPoolSize == 2
MaxMaxOverflow == 1
MaxConns == 3
MaxCalls == 4

Tasks == 1 .. NumTasks
Conns == 1 .. MaxConns

VARIABLES
    pool_size,        \* Queue(pool_size).maxsize, the argument of __init__
    _max_overflow,    \* self._max_overflow (-1: unbounded)
    _pool,            \* self._pool: the idle queue, a FIFO of connections
    _overflow,        \* self._overflow
    _overflow_lock,   \* self._overflow_lock: the Semaphore's counter
    created,          \* number of connections the creator has returned
    closed,           \* connections on which close() has been invoked
    pc,               \* per task: the statement it is at
    wait,             \* per task: the local `wait` of _do_get
    conn,             \* per task: the local `conn` of _do_return_conn / dispose
    held,             \* per task: connections checked out to the caller
    result,           \* per task: how its last call ended
    calls,            \* per task: creator invocations made by the current call
    d_ov,             \* per task: net change the current call made to _overflow
    d_idle,           \* per task: net change the current call made to qsize()
    ncalls,           \* calls started so far, by all tasks
    alone,            \* the task whose dispose() has run with every other task
                      \* idle since it began (0: there is none)
    instance,         \* Singleton.instance of the class (0: None)
    constructed,      \* number of times __init__ has run
    obj               \* per task: the pool object its last call returned

vars == << pool_size, _max_overflow, _pool, _overflow, _overflow_lock, created,
           closed, pc, wait, conn, held, result, calls, d_ov, d_idle, ncalls,
           alone, instance, constructed, obj >>

config == << pool_size, _max_overflow >>

singleton == << instance, constructed >>

\* what the statements inside a call on the pool leave as it is
outside == << instance, constructed, obj, alone, ncalls >>

\* ---- status methods -----------------------------------------------------
size == pool_size

checkedin == Len(_pool)

overflow == _overflow

checkedout == pool_size - Len(_pool) + _overflow

\* ---- helpers of _do_get / _inc_overflow / _dec_overflow / Queue -----------
use_overflow == _max_overflow > -1

\* line 96 without the use_overflow conjunct
WaitFlagAlways(ov) == ov >= _max_overflow

WaitFlag(ov) == use_overflow /\ ov >= _max_overflow

\* line 99 with > for >=
AtLimitStrict(ov) == use_overflow /\ ov > _max_overflow

AtLimit(ov) == use_overflow /\ ov >= _max_overflow

\* line 121 with <= for <
BelowMaxOffByOne(ov) == ov <= _max_overflow

BelowMax(ov) == ov < _max_overflow

IncrementedTwice(ov) == ov + 2

\* lines 118 and 122: self._overflow += 1
Incremented(ov) == ov + 1

\* lines 130/133 decrementing twice
DecrementedTwice(ov) == ov - 2

Decremented(ov) == ov - 1

\* Queue.put reporting Full one slot early
QueueFullEarly(q) == Len(q) + 1 >= pool_size

\* Queue(pool_size).put(conn, False) raises Full; the docstring of __init__
\* (lines 45-47): "pool_size can be set to 0 to indicate no size limit"
QueueFull(q) == pool_size > 0 /\ Len(q) >= pool_size

\* ---- construction ---------------------------------------------------------
\* the state after GreenletQueuePool(creator, pool_size, max_overflow), the
\* first construction, with pool_size drawn from sizes
Constructed(sizes) ==
    /\ pool_size \in sizes
    /\ _max_overflow \in -1 .. MaxMaxOverflow
    /\ _pool = << >>
    /\ _overflow = 0 - pool_size
    /\ _overflow_lock = 1
    /\ created = 0
    /\ closed = {}
    /\ pc = [t \in Tasks |-> "idle"]
    /\ wait = [t \in Tasks |-> FALSE]
    /\ conn = [t \in Tasks |-> 0]
    /\ held = [t \in Tasks |-> {}]
    /\ result = [t \in Tasks |-> "none"]
    /\ calls = [t \in Tasks |-> 0]
    /\ d_ov = [t \in Tasks |-> 0]
    /\ d_idle = [t \in Tasks |-> 0]
    /\ ncalls = 0
    /\ alone = 0
    /\ instance = 1
    /\ constructed = 1
    /\ obj = [t \in Tasks |-> 0]

\* Spec follows pools whose queue has a size limit; AnySize and ScenarioC
\* below follow pools with pool_size = 0 as well.
Init == Constructed(1 .. MaxPoolSize)

\* A task starts a call; the model follows runs of at most MaxCalls calls.
StartCall(t, first) ==
    /\ pc[t] = "idle"
    /\ ncalls < MaxCalls
    /\ ncalls' = ncalls + 1
    /\ alone' = IF first = "dispose_get" /\ \A u \in Tasks \ {t} : pc[u] = "idle"
                 THEN t ELSE 0
    /\ pc' = [pc EXCEPT ![t] = first]
    /\ result' = [result EXCEPT ![t] = "running"]

\* The call is over (a value was returned or an exception raised): the caller
\* goes on, and the observations made of the call are dropped.
Return(t) ==
    /\ pc[t] = "return"
    /\ pc' = [pc EXCEPT ![t] = "idle"]
    /\ result' = [result EXCEPT ![t] = "none"]
    /\ wait' = [wait EXCEPT ![t] = FALSE]
    /\ calls' = [calls EXCEPT ![t] = 0]
    /\ d_ov' = [d_ov EXCEPT ![t] = 0]
    /\ d_idle' = [d_idle EXCEPT ![t] = 0]
    /\ conn' = [conn EXCEPT ![t] = 0]
    /\ obj' = [obj EXCEPT ![t] = 0]
    /\ alone' = IF alone = t THEN 0 ELSE alone
    /\ UNCHANGED << config, singleton, ncalls, _pool, _overflow, _overflow_lock,
                    created, closed, held >>

\* ---- _do_get ------------------------------------------------------------
AcquireCall(t) ==
    /\ StartCall(t, "compute_wait")
    /\ UNCHANGED << config, singleton, obj, _pool, _overflow, _overflow_lock, created, closed,
                    wait, conn, held, calls, d_ov, d_idle >>

\* line 96: wait = use_overflow and self._overflow >= self._max_overflow
ComputeWait(t) ==
    /\ pc[t] = "compute_wait"
    /\ wait' = [wait EXCEPT ![t] = WaitFlag(_overflow)]
    /\ pc' = [pc EXCEPT ![t] = "get"]
    /\ UNCHANGED << config, outside, _pool, _overflow, _overflow_lock, created, closed,
                    conn, held, result, calls, d_ov, d_idle >>

\* a get that leaves the connection in the queue
TakeIdlePeek(t) ==
    /\ _pool # << >>
    /\ held' = [held EXCEPT ![t] = @ \cup {Head(_pool)}]
    /\ result' = [result EXCEPT ![t] = "got_idle"]
    /\ pc' = [pc EXCEPT ![t] = "return"]
    /\ UNCHANGED << config, outside, _pool, _overflow, _overflow_lock, created,
                    closed, wait, conn, calls, d_ov, d_idle >>

\* Queue.get hands the head of the queue to the caller, who returns it.
TakeIdle(t) ==
    /\ _pool # << >>
    /\ _pool' = Tail(_pool)
    /\ held' = [held EXCEPT ![t] = @ \cup {Head(_pool)}]
    /\ d_idle' = [d_idle EXCEPT ![t] = @ - 1]
    /\ result' = [result EXCEPT ![t] = "got_idle"]
    /\ pc' = [pc EXCEPT ![t] = "return"]
    /\ UNCHANGED << config, outside, _overflow, _overflow_lock, created, closed, wait,
                    conn, calls, d_ov >>

\* line 97: return self._pool.get(wait, self._timeout)
QueueGet(t) ==
    /\ pc[t] = "get"
    /\ \/ TakeIdle(t)
       \/ /\ _pool = << >>
          /\ pc' = [pc EXCEPT ![t] = IF wait[t] THEN "waiting" ELSE "empty"]
          /\ UNCHANGED << config, outside, _pool, _overflow, _overflow_lock, created,
                          closed, wait, conn, held, result, calls, d_ov, d_idle >>

\* a task blocked in get(True, timeout) is resumed with an item of the queue
WaitGet(t) ==
    /\ pc[t] = "waiting"
    /\ TakeIdle(t)

\* a timeout that fires although an item is available
WaitTimeoutEarly(t) ==
    /\ pc[t] = "waiting"
    /\ pc' = [pc EXCEPT ![t] = "empty"]
    /\ UNCHANGED << config, outside, _pool, _overflow, _overflow_lock, created, closed,
                    wait, conn, held, result, calls, d_ov, d_idle >>

\* the timeout of get(True, timeout) elapses with no item available: Empty is
\* raised in the waiter
WaitTimeout(t) ==
    /\ pc[t] = "waiting"
    /\ _pool = << >>
    /\ pc' = [pc EXCEPT ![t] = "empty"]
    /\ UNCHANGED << config, outside, _pool, _overflow, _overflow_lock, created, closed,
                    wait, conn, held, result, calls, d_ov, d_idle >>

\* a re-check that raises TimeoutError without looking at `wait`
CheckLimitNoWait(t) ==
    /\ pc[t] = "empty"
    /\ IF AtLimit(_overflow)
         THEN /\ pc' = [pc EXCEPT ![t] = "return"]
              /\ result' = [result EXCEPT ![t] = "timeout"]
         ELSE /\ pc' = [pc EXCEPT ![t] = "inc"]
              /\ UNCHANGED result
    /\ UNCHANGED << config, outside, _pool, _overflow, _overflow_lock, created, closed,
                    wait, conn, held, calls, d_ov, d_idle >>

\* lines 98-106: except Empty: the limit is re-checked
CheckLimit(t) ==
    /\ pc[t] = "empty"
    /\ IF AtLimit(_overflow)
         THEN IF ~wait[t]
                THEN /\ pc' = [pc EXCEPT ![t] = "compute_wait"]
                     /\ UNCHANGED result
                ELSE /\ pc' = [pc EXCEPT ![t] = "return"]
                     /\ result' = [result EXCEPT ![t] = "timeout"]
         ELSE /\ pc' = [pc EXCEPT ![t] = "inc"]
              /\ UNCHANGED result
    /\ UNCHANGED << config, outside, _pool, _overflow, _overflow_lock, created, closed,
                    wait, conn, held, calls, d_ov, d_idle >>

\* lines 116-121 and 124-125 of _inc_overflow, and line 114 of _do_get
IncOverflow(t) ==
    /\ pc[t] = "inc"
    /\ IF _max_overflow = -1
         THEN /\ _overflow' = Incremented(_overflow)
              /\ d_ov' = [d_ov EXCEPT ![t] = @ + (_overflow' - _overflow)]
              /\ pc' = [pc EXCEPT ![t] = "create"]
              /\ UNCHANGED _overflow_lock
         ELSE /\ _overflow_lock > 0
              /\ IF BelowMax(_overflow)
                   THEN /\ _overflow_lock' = _overflow_lock - 1
                        /\ pc' = [pc EXCEPT ![t] = "inc_add"]
                   ELSE /\ pc' = [pc EXCEPT ![t] = "compute_wait"]
                        /\ UNCHANGED _overflow_lock
              /\ UNCHANGED << _overflow, d_ov >>
    /\ UNCHANGED << config, outside, _pool, created, closed, wait, conn, held, result,
                    calls, d_idle >>

\* lines 122-123: self._overflow += 1; return True (the semaphore is released)
IncAdd(t) ==
    /\ pc[t] = "inc_add"
    /\ _overflow' = Incremented(_overflow)
    /\ d_ov' = [d_ov EXCEPT ![t] = @ + (_overflow' - _overflow)]
    /\ _overflow_lock' = _overflow_lock + 1
    /\ pc' = [pc EXCEPT ![t] = "create"]
    /\ UNCHANGED << config, outside, _pool, created, closed, wait, conn, held, result,
                    calls, d_idle >>

\* line 110: return self._create_connection(); the creator returns or raises
CreateConnection(t) ==
    /\ pc[t] = "create"
    /\ calls' = [calls EXCEPT ![t] = @ + 1]
    /\ \/ /\ created < MaxConns
          /\ created' = created + 1
          /\ held' = [held EXCEPT ![t] = @ \cup {created + 1}]
          /\ result' = [result EXCEPT ![t] = "got_new"]
          /\ pc' = [pc EXCEPT ![t] = "return"]
       \/ /\ pc' = [pc EXCEPT ![t] = "except"]
          /\ UNCHANGED << created, held, result >>
    /\ UNCHANGED << config, outside, _pool, _overflow, _overflow_lock, closed, wait,
                    conn, d_ov, d_idle >>

\* lines 111-112 with the except clause not giving the increment back
ExceptSwallow(t) ==
    /\ pc[t] = "except"
    /\ result' = [result EXCEPT ![t] = "returned_None"]
    /\ pc' = [pc EXCEPT ![t] = "return"]
    /\ UNCHANGED << config, outside, _pool, _overflow, _overflow_lock, created, closed,
                    wait, conn, held, calls, d_ov, d_idle >>

\* lines 111-112: except: self._dec_overflow(); _do_get then falls off its end
ExceptDec(t) ==
    /\ pc[t] = "except"
    /\ _overflow_lock > 0
    /\ _overflow' = Decremented(_overflow)
    /\ d_ov' = [d_ov EXCEPT ![t] = @ + (_overflow' - _overflow)]
    /\ result' = [result EXCEPT ![t] = "returned_None"]
    /\ pc' = [pc EXCEPT ![t] = "return"]
    /\ UNCHANGED << config, outside, _pool, _overflow_lock, created, closed, wait, conn,
                    held, calls, d_idle >>

\* ---- _do_return_conn ------------------------------------------------------
ReleaseCall(t, c) ==
    /\ c \in held[t]
    /\ StartCall(t, "put")
    /\ held' = [held EXCEPT ![t] = @ \ {c}]
    /\ conn' = [conn EXCEPT ![t] = c]
    /\ UNCHANGED << config, singleton, obj, _pool, _overflow, _overflow_lock, created, closed,
                    wait, calls, d_ov, d_idle >>

\* line 82: self._pool.put(conn, False)
QueuePut(t) ==
    /\ pc[t] = "put"
    /\ IF QueueFull(_pool)
         THEN /\ pc' = [pc EXCEPT ![t] = "close"]
              /\ UNCHANGED << _pool, result, d_idle >>
         ELSE /\ _pool' = Append(_pool, conn[t])
              /\ d_idle' = [d_idle EXCEPT ![t] = @ + 1]
              /\ result' = [result EXCEPT ![t] = "put_idle"]
              /\ pc' = [pc EXCEPT ![t] = "return"]
    /\ UNCHANGED << config, outside, _overflow, _overflow_lock, created, closed, wait,
                    conn, held, calls, d_ov >>

\* line 86: conn.close(), which returns or raises
CloseConn(t) ==
    /\ pc[t] = "close"
    /\ closed' = closed \cup {conn[t]}
    /\ \E ok \in BOOLEAN :
          result' = [result EXCEPT ![t] = IF ok THEN "running" ELSE "close_raised"]
    /\ pc' = [pc EXCEPT ![t] = "finally"]
    /\ UNCHANGED << config, outside, _pool, _overflow, _overflow_lock, created, wait,
                    conn, held, calls, d_ov, d_idle >>

\* line 88: finally: self._dec_overflow()
FinallyDec(t) ==
    /\ pc[t] = "finally"
    /\ _overflow_lock > 0
    /\ _overflow' = Decremented(_overflow)
    /\ d_ov' = [d_ov EXCEPT ![t] = @ + (_overflow' - _overflow)]
    /\ result' = [result EXCEPT ![t] =
                     IF @ = "close_raised" THEN "close_raised" ELSE "discarded"]
    /\ pc' = [pc EXCEPT ![t] = "return"]
    /\ UNCHANGED << config, outside, _pool, _overflow_lock, created, closed, wait, conn,
                    held, calls, d_idle >>

\* ---- dispose --------------------------------------------------------------
DisposeCall(t) ==
    /\ StartCall(t, "dispose_get")
    /\ UNCHANGED << config, singleton, obj, _pool, _overflow, _overflow_lock, created, closed,
                    wait, conn, held, calls, d_ov, d_idle >>

\* a drain that closes the head of the queue without removing it
DisposeGetPeek(t) ==
    /\ pc[t] = "dispose_get"
    /\ IF _pool # << >> /\ Head(_pool) \notin closed
         THEN /\ conn' = [conn EXCEPT ![t] = Head(_pool)]
              /\ pc' = [pc EXCEPT ![t] = "dispose_close"]
         ELSE /\ pc' = [pc EXCEPT ![t] = "dispose_reset"]
              /\ UNCHANGED conn
    /\ UNCHANGED << config, outside, _pool, _overflow, _overflow_lock, created,
                    closed, wait, held, result, calls, d_ov, d_idle >>

\* line 151: conn = self._pool.get(False); line 153: except Empty: break
DisposeGet(t) ==
    /\ pc[t] = "dispose_get"
    /\ IF _pool # << >>
         THEN /\ conn' = [conn EXCEPT ![t] = Head(_pool)]
              /\ _pool' = Tail(_pool)
              /\ pc' = [pc EXCEPT ![t] = "dispose_close"]
         ELSE /\ pc' = [pc EXCEPT ![t] = "dispose_reset"]
              /\ UNCHANGED << _pool, conn >>
    /\ UNCHANGED << config, outside, _overflow, _overflow_lock, created, closed, wait,
                    held, result, calls, d_ov, d_idle >>

\* line 152: conn.close(); an exception other than Empty leaves dispose
DisposeClose(t) ==
    /\ pc[t] = "dispose_close"
    /\ closed' = closed \cup {conn[t]}
    /\ conn' = [conn EXCEPT ![t] = 0]
    /\ \/ /\ pc' = [pc EXCEPT ![t] = "dispose_get"]
          /\ UNCHANGED result
       \/ /\ pc' = [pc EXCEPT ![t] = "return"]
          /\ result' = [result EXCEPT ![t] = "dispose_raised"]
    /\ UNCHANGED << config, outside, _pool, _overflow, _overflow_lock, created, wait,
                    held, calls, d_ov, d_idle >>

DisposedOverflowKept == _overflow

\* line 156: the value dispose() gives self._overflow
DisposedOverflow == 0 - size

\* line 156: self._overflow = 0 - self.size()
DisposeReset(t) ==
    /\ pc[t] = "dispose_reset"
    /\ _overflow' = DisposedOverflow
    /\ result' = [result EXCEPT ![t] = "disposed"]
    /\ pc' = [pc EXCEPT ![t] = "return"]
    /\ UNCHANGED << config, outside, _pool, _overflow_lock, created, closed, wait, conn,
                    held, calls, d_ov, d_idle >>

\* ---- Singleton, recreate --------------------------------------------------
IsNoneAlways(inst) == TRUE

\* line 18: if self.instance is None
IsNone(inst) == inst = 0

\* Singleton.__call__ (lines 17-20), which line 30 puts in front of every
\* GreenletQueuePool(creator, pool_size=ps, max_overflow=mo): __init__ (lines
\* 71-76) runs only while the class has no instance; the caller gets
\* self.instance.
SingletonCall(t, ps, mo) ==
    /\ IF IsNone(instance)
         THEN /\ pool_size' = ps
              /\ _max_overflow' = mo
              /\ _pool' = << >>
              /\ _overflow' = 0 - ps
              /\ _overflow_lock' = 1
              /\ constructed' = constructed + 1
              /\ instance' = constructed + 1
         ELSE UNCHANGED << config, singleton, _pool, _overflow, _overflow_lock >>
    /\ obj' = [obj EXCEPT ![t] = instance']

\* some part of the program asks for a pool: GreenletQueuePool(creator, ...)
ConstructCall(t) ==
    /\ StartCall(t, "construct")
    /\ UNCHANGED << config, singleton, obj, _pool, _overflow, _overflow_lock,
                    created, closed, wait, conn, held, calls, d_ov, d_idle >>

Construct(t) ==
    /\ pc[t] = "construct"
    /\ \E ps \in 0 .. MaxPoolSize, mo \in -1 .. MaxMaxOverflow :
           SingletonCall(t, ps, mo)
    /\ result' = [result EXCEPT ![t] = "constructed"]
    /\ pc' = [pc EXCEPT ![t] = "return"]
    /\ UNCHANGED << alone, ncalls, created, closed, wait, conn, held, calls, d_ov,
                    d_idle >>

RecreateCall(t) ==
    /\ StartCall(t, "recreate")
    /\ UNCHANGED << config, singleton, obj, _pool, _overflow, _overflow_lock,
                    created, closed, wait, conn, held, calls, d_ov, d_idle >>

\* lines 138-146: return self.__class__(self._creator,
\*     pool_size=self._pool.maxsize, max_overflow=self._max_overflow, ...)
Recreate(t) ==
    /\ pc[t] = "recreate"
    /\ SingletonCall(t, pool_size, _max_overflow)
    /\ result' = [result EXCEPT ![t] = "recreated"]
    /\ pc' = [pc EXCEPT ![t] = "return"]
    /\ UNCHANGED << alone, ncalls, created, closed, wait, conn, held, calls, d_ov,
                    d_idle >>

\* ---- the system -----------------------------------------------------------
Next ==
    \E t \in Tasks :
        \/ Return(t)
        \/ AcquireCall(t)
        \/ ComputeWait(t)
        \/ QueueGet(t)
        \/ WaitGet(t)
        \/ WaitTimeout(t)
        \/ CheckLimit(t)
        \/ IncOverflow(t)
        \/ IncAdd(t)
        \/ CreateConnection(t)
        \/ ExceptDec(t)
        \/ \E c \in Conns : ReleaseCall(t, c)
        \/ QueuePut(t)
        \/ CloseConn(t)
        \/ FinallyDec(t)
        \/ DisposeCall(t)
        \/ DisposeGet(t)
        \/ DisposeClose(t)
        \/ DisposeReset(t)

Spec == Init /\ [][Next]_vars

\* A pool of any size, pool_size = 0 included, on which _do_get and
\* _do_return_conn are called.
InitAny == Constructed(0 .. MaxPoolSize)

NextUse ==
    \E t \in Tasks :
        \/ Return(t)
        \/ AcquireCall(t)
        \/ ComputeWait(t)
        \/ QueueGet(t)
        \/ WaitGet(t)
        \/ WaitTimeout(t)
        \/ CheckLimit(t)
        \/ IncOverflow(t)
        \/ IncAdd(t)
        \/ CreateConnection(t)
        \/ ExceptDec(t)
        \/ \E c \in Conns : ReleaseCall(t, c)
        \/ QueuePut(t)
        \/ CloseConn(t)
        \/ FinallyDec(t)

AnySize == InitAny /\ [][NextUse]_vars

\* A pool in use on which recreate() is called, in a program that asks for
\* GreenletQueuePool(...) again.
NextS ==
    \/ NextUse
    \/ \E t \in Tasks :
           \/ ConstructCall(t)
           \/ Construct(t)
           \/ RecreateCall(t)
           \/ Recreate(t)

SingletonSpec == Init /\ [][NextS]_vars

\* Scenario C: a pool built with pool_size = 0 and max_overflow = -1, on which
\* only _do_get and _do_return_conn are called.  The statements left out
\* (lines 104-108 after a blocking get, 122-123, 84, 86) are those the
\* statements below never lead to.
InitC == Constructed({0}) /\ _max_overflow = -1

NextC ==
    \E t \in Tasks :
        \/ Return(t)
        \/ AcquireCall(t)
        \/ ComputeWait(t)
        \/ QueueGet(t)
        \/ CheckLimit(t)
        \/ IncOverflow(t)
        \/ CreateConnection(t)
        \/ ExceptDec(t)
        \/ \E c \in held[t] : ReleaseCall(t, c)
        \/ QueuePut(t)

ScenarioC == InitC /\ [][NextC]_vars


\* ---- observations -----------------------------------------------------------
\* connections created by the creator on which close() was never invoked
Live == (1 .. created) \ closed

\* connections currently checked out to callers
Held == UNION { held[t] : t \in Tasks }

InQueue(c) == \E i \in 1 .. Len(_pool) : _pool[i] = c

Quiescent == \A t \in Tasks : pc[t] = "idle"

\* t takes a step out of the statement `at`
Leaves(t, at) == pc[t] = at /\ pc'[t] # at

\* ---- claims -----------------------------------------------------------------

\* C1: in bounded mode the number of live connections (created and not yet
\* closed, idle or held) never exceeds pool_size + max_overflow, whatever the
\* interleaving of acquire, release and dispose.
C1_LiveWithinLimit ==
    use_overflow => Cardinality(Live) <= pool_size + _max_overflow

\* what C2 says of every state
C2_State ==
    use_overflow =>
        /\ overflow <= _max_overflow
        /\ checkedout <= size + _max_overflow
        /\ \A t \in Tasks : pc[t] = "inc_add" => _overflow < _max_overflow

\* what C2 says of every step
C2_Step ==
    \A t \in Tasks :
        (Leaves(t, "inc") /\ use_overflow /\ _overflow >= _max_overflow)
            => (pc'[t] = "compute_wait" /\ _overflow' = _overflow)

\* C2: in bounded mode overflow() <= max_overflow and checkedout() <= size() +
\* max_overflow in every state; _inc_overflow adds only while overflow is below
\* max_overflow, and when it finds overflow >= max_overflow it returns False
\* and leaves overflow unchanged.
C2_OverflowBounded == [] C2_State /\ [][C2_Step]_vars

\* two acquires passed the check of line 99 while overflow was below the bound;
\* one has incremented to the bound, the other is about to call _inc_overflow
C2_Witness ==
    /\ use_overflow
    /\ _overflow = _max_overflow
    /\ \E t, u \in Tasks : t # u /\ pc[t] = "inc" /\ pc[u] = "create"

\* C3: when no task is inside acquire, release or dispose, the number of
\* connections held by callers equals checkedout().
C3_HeldIsCheckedout == Quiescent => Cardinality(Held) = checkedout

\* C4: overflow() >= -capacity and checkedout() >= 0 in every state.
C4_NonNegative == overflow >= 0 - size /\ checkedout >= 0

\* C5: an acquire whose creator call fails ends by propagating the creation
\* error: a call that invoked the creator ends with a new connection or with
\* the creation error, and invokes the creator once.
C5_CreationErrorPropagates ==
    \A t \in Tasks :
        (pc[t] = "return" /\ calls[t] > 0)
            => (calls[t] = 1 /\ result[t] \in {"got_new", "creation_error"})

\* C6: an acquire whose creator call fails has changed neither overflow nor
\* the idle count (nor, therefore, checkedout()) by the time it ends.
C6_FailedCreateFrame ==
    \A t \in Tasks :
        (pc[t] = "return" /\ calls[t] > 0 /\ result[t] # "got_new")
            => (d_ov[t] = 0 /\ d_idle[t] = 0)

C6_Witness ==
    \E t \in Tasks :
        /\ pc[t] = "return" /\ calls[t] = 1 /\ result[t] = "returned_None"
        /\ \A u \in Tasks \ {t} : pc[u] = "idle"

\* what C7 says of every state
C7_State ==
    \A t \in Tasks :
        /\ pc[t] = "waiting" => (use_overflow /\ wait[t] /\ calls[t] = 0)
        /\ result[t] = "timeout" =>
              (use_overflow /\ calls[t] = 0 /\ d_ov[t] = 0 /\ d_idle[t] = 0)

\* what C7 says of every step
C7_Step ==
    \A t \in Tasks :
        /\ (Leaves(t, "compute_wait") /\ use_overflow /\ _overflow >= _max_overflow)
              => wait'[t]
        /\ (Leaves(t, "get") /\ wait[t] /\ _pool = << >>)
              => (pc'[t] = "waiting" /\ _overflow' = _overflow /\ created' = created)
        /\ (Leaves(t, "empty") /\ wait[t] /\ use_overflow /\ _overflow >= _max_overflow)
              => /\ pc'[t] = "return" /\ result'[t] = "timeout"
                 /\ _overflow' = _overflow /\ created' = created /\ _pool' = _pool

\* C7: in bounded mode an acquire that finds overflow >= max_overflow sets
\* wait, suspends on the empty queue without creating anything, and, when the
\* timeout fires with overflow still at its bound, raises the timeout error
\* without invoking the creator and without changing overflow.
C7_TimeoutAtLimit == [] C7_State /\ [][C7_Step]_vars

\* capacity 2, max_overflow 1, three connections out, the fourth acquire timed out
C7_Witness ==
    /\ pool_size = 2 /\ _max_overflow = 1 /\ _overflow = 1
    /\ Cardinality(Held) = 3
    /\ _pool = << >>
    /\ \E t \in Tasks : pc[t] = "return" /\ result[t] = "timeout"

\* what C8 says of every state
C8_State ==
    ~ use_overflow =>
        \A t \in Tasks :
            /\ ~ wait[t]
            /\ pc[t] # "waiting"
            /\ result[t] # "timeout"
            /\ pc[t] = "create" => d_ov[t] = 1

\* what C8 says of every step
C8_Step ==
    ~ use_overflow =>
        \A t \in Tasks :
            /\ Leaves(t, "empty") => pc'[t] = "inc"
            /\ Leaves(t, "inc") => (pc'[t] = "create" /\ _overflow' = _overflow + 1)
            /\ Leaves(t, "create") => calls'[t] = 1

\* C8: with max_overflow = -1 no acquire waits on the queue or raises the
\* timeout error; an acquire that found the queue empty increments overflow
\* and invokes the creator.
C8_UnboundedNeverWaits == [] C8_State /\ [][C8_Step]_vars

\* unbounded mode, more connections out than the pool size, one more on its way
C8_Witness ==
    /\ ~ use_overflow
    /\ Cardinality(Held) > pool_size
    /\ \E t \in Tasks : pc[t] = "create" /\ _overflow > 0

\* what C9 says of every state
C9_State ==
    \A t \in Tasks :
        (pc[t] = "return" /\ result[t] \in {"discarded", "close_raised"})
            => /\ conn[t] \in closed
               /\ ~ InQueue(conn[t])
               /\ d_ov[t] = -1
               /\ d_idle[t] = 0
               /\ d_ov[t] - d_idle[t] = -1

\* what C9 says of the put of a release, for every capacity
C9_PutAtCapacity ==
    \A t \in Tasks :
        (Leaves(t, "put") /\ Len(_pool) = pool_size)
            => (pc'[t] = "close" /\ _pool' = _pool /\ _overflow' = _overflow)

\* the same for a capacity of at least 1
C9_PutOnFull ==
    \A t \in Tasks :
        (Leaves(t, "put") /\ pool_size >= 1 /\ Len(_pool) = pool_size)
            => (pc'[t] = "close" /\ _pool' = _pool /\ _overflow' = _overflow)

\* what C9 says of the steps after the put
C9_Step ==
    \A t \in Tasks :
        /\ Leaves(t, "close") => (conn[t] \in closed' /\ pc'[t] = "finally")
        /\ Leaves(t, "finally") => (_overflow' = _overflow - 1 /\ _pool' = _pool)

\* C9 as stated: a release that finds the queue holding exactly pool_size
\* connections closes the connection, does not insert it, and decrements
\* overflow by exactly 1.  With pool_size = 0 the queue has no limit and the
\* release of the first connection inserts it.
C9_AtCapacity == [] C9_State /\ [][C9_PutAtCapacity /\ C9_Step]_vars

\* C9: with pool_size >= 1, a release that finds the queue holding pool_size
\* connections closes the connection, does not insert it, and decrements
\* overflow by exactly 1: checkedout() drops by 1 and the idle count is
\* unchanged.
C9_ReleaseOnFull == [] C9_State /\ [][C9_PutOnFull /\ C9_Step]_vars

C9_Witness ==
    \E t \in Tasks :
        /\ pc[t] = "return" /\ result[t] = "discarded"
        /\ Len(_pool) = pool_size
        /\ \A u \in Tasks \ {t} : pc[u] = "idle"

\* what C10 says of every state
C10_State ==
    \A t \in Tasks :
        /\ (pc[t] = "return" /\ result[t] = "put_idle")
              => (d_ov[t] = 0 /\ d_idle[t] = 1)
        /\ (pc[t] = "return" /\ result[t] = "got_idle")
              => (calls[t] = 0 /\ d_ov[t] = 0 /\ d_idle[t] = -1)

\* what C10 says of every step
C10_Step ==
    \A t \in Tasks :
        /\ (Leaves(t, "put") /\ Len(_pool) < pool_size)
              => /\ _pool' = Append(_pool, conn[t])
                 /\ closed' = closed /\ _overflow' = _overflow
                 /\ pc'[t] = "return" /\ result'[t] = "put_idle"
        /\ (Leaves(t, "get") /\ _pool # << >>)
              => /\ Head(_pool) \in held'[t] /\ _pool' = Tail(_pool)
                 /\ created' = created /\ _overflow' = _overflow
                 /\ pc'[t] = "return" /\ result'[t] = "got_idle"

\* C10: a release that finds the queue below capacity appends the connection
\* without closing it and leaves overflow unchanged; an acquire that finds the
\* queue non-empty returns its head at once, without invoking the creator and
\* without changing overflow.
C10_ReleaseThenAcquire == [] C10_State /\ [][C10_Step]_vars

\* scenario B: with overflow at its bound, a released connection is handed to
\* the next acquire
C10_Witness ==
    /\ use_overflow /\ _overflow = _max_overflow
    /\ \E t \in Tasks :
          /\ pc[t] = "return" /\ result[t] = "got_idle"
          /\ \E c \in held[t] : c < created

\* what C11 says of every state
C11_State ==
    \A t \in Tasks :
        (pc[t] = "return" /\ result[t] = "disposed" /\ alone = t)
            => /\ Live \subseteq Held
               /\ checkedin = 0
               /\ overflow = 0 - size
               /\ Held = {} => checkedout = 0

\* what C11 says of every step
C11_Step ==
    \A t \in Tasks :
        /\ (Leaves(t, "dispose_get") /\ _pool # << >>)
              => /\ conn'[t] = Head(_pool) /\ _pool' = Tail(_pool)
                 /\ pc'[t] = "dispose_close"
        /\ Leaves(t, "dispose_close") => conn[t] \in closed'
        /\ (Leaves(t, "dispose_get") /\ pc'[t] = "dispose_reset") => _pool = << >>
        /\ (Leaves(t, "dispose_reset") /\ result'[t] = "disposed")
              => _overflow' = 0 - size

\* C11: when dispose() returns, no other call having run meanwhile, close()
\* has been invoked on every connection that was idle, checkedin() is 0,
\* overflow is 0 - size, and checkedout() is 0 if no connection is checked out.
C11_DisposePostcondition == [] C11_State /\ [][C11_Step]_vars

\* a dispose() that found idle connections has returned, with a connection
\* still checked out
C11_Witness ==
    \E t \in Tasks :
        /\ pc[t] = "return" /\ result[t] = "disposed" /\ alone = t
        /\ closed # {}
        /\ Held # {}

\* C12: a close() that fails during dispose() neither raises out of dispose()
\* nor stops it: dispose() still returns normally, with every idle connection
\* removed and overflow reset to 0 - size.  (No other call runs meanwhile.)
C12_DestroyFailureContained ==
    \A t \in Tasks :
        ( /\ pc[t] = "return" /\ result[t] \in {"disposed", "dispose_raised"}
          /\ alone = t )
            => /\ result[t] = "disposed"
               /\ checkedin = 0
               /\ overflow = 0 - size

\* C13: recreate() returns a pool object other than the one it was called on,
\* built by a run of __init__ of its own (so with an empty queue and an
\* overflow counter that are not those of the old pool), and closes no
\* connection.
C13_RecreateFresh ==
    [][ \A t \in Tasks :
           Leaves(t, "recreate")
              => /\ obj'[t] # instance
                 /\ constructed' = constructed + 1
                 /\ closed' = closed ]_vars

\* what C14 says of every state
C14_State ==
    /\ constructed = 1
    /\ instance = 1
    /\ \A t \in Tasks :
          (pc[t] = "return" /\ result[t] = "constructed") => obj[t] = instance

\* what C14 says of every step
C14_Step ==
    \A t \in Tasks :
        Leaves(t, "construct")
            => /\ obj'[t] = instance
               /\ UNCHANGED << config, singleton, _pool, _overflow >>

\* C14: once the class has its instance, every later GreenletQueuePool(...),
\* whatever its arguments, returns that instance and leaves pool_size,
\* max_overflow, the queue and overflow as they are; __init__ runs once.
C14_FirstConstructionWins == [] C14_State /\ [][C14_Step]_vars

\* a later construction request has returned while the pool has an idle
\* connection and another one checked out
C14_Witness ==
    \E t \in Tasks :
        /\ pc[t] = "return" /\ result[t] = "constructed" /\ obj[t] = 1
        /\ _pool # << >>
        /\ Held # {}

\* C15 as stated: with pool_size = 0 and max_overflow = -1, after any sequence
\* of acquires and releases the queue holds nothing (every release closed its
\* connection), every acquire that returned a connection invoked the creator,
\* and overflow is the number of connections checked out, never negative.
C15_EveryReleaseDestroys ==
    (pool_size = 0 /\ _max_overflow = -1)
        => /\ overflow >= 0
           /\ Quiescent => (_pool = << >> /\ overflow = Cardinality(Held))
           /\ \A t \in Tasks :
                 (pc[t] = "return" /\ result[t] \in {"got_idle", "got_new"})
                     => calls[t] >= 1

\* what C15 says of every state, once amended
C15_State ==
    (pool_size = 0 /\ _max_overflow = -1)
        => /\ overflow >= 0
           /\ closed = {}
           /\ Quiescent => overflow = Cardinality(Held) + Len(_pool)
           /\ \A t \in Tasks :
                 /\ (pc[t] = "return" /\ result[t] = "got_new") => calls[t] = 1
                 /\ (pc[t] = "return" /\ result[t] = "got_idle") => calls[t] = 0

\* what C15 says of every step, once amended
C15_Step ==
    \A t \in Tasks :
        /\ Leaves(t, "put")
              => /\ _pool' = Append(_pool, conn[t])
                 /\ pc'[t] = "return" /\ result'[t] = "put_idle"
                 /\ _overflow' = _overflow
        /\ (Leaves(t, "get") /\ _pool # << >>)
              => /\ Head(_pool) \in held'[t]
                 /\ pc'[t] = "return" /\ result'[t] = "got_idle"
                 /\ created' = created /\ _overflow' = _overflow
        /\ (Leaves(t, "get") /\ _pool = << >>) => pc'[t] = "empty"
        /\ Leaves(t, "empty") => pc'[t] = "inc"
        /\ Leaves(t, "inc") => (pc'[t] = "create" /\ _overflow' = _overflow + 1)

\* C15: with pool_size = 0 and max_overflow = -1, after any sequence of
\* acquires and releases: no release closes its connection, each puts it into
\* the queue, which has no limit; an acquire invokes the creator only if it
\* finds the queue empty and returns the head of the queue otherwise; overflow
\* is the number of connections checked out plus the number idle, and is
\* never negative.
C15_UnlimitedQueue == [] C15_State /\ [][C15_Step]_vars

\* two connections exist, one idle again and one checked out, and an acquire
\* has just been handed the idle one
C15_Witness ==
    /\ pool_size = 0 /\ _max_overflow = -1
    /\ created >= 2
    /\ \E t \in Tasks : pc[t] = "return" /\ result[t] = "got_idle"

\* what C16 says of every state
C16_State ==
    /\ \A t, u \in Tasks : t # u => held[t] \cap held[u] = {}
    /\ \A c \in Held : ~ InQueue(c)

\* what C16 says of every step: a connection handed to a caller is the one
\* the creator has just returned or the one just removed from the queue
C16_Step ==
    \A t \in Tasks : \A c \in held'[t] \ held[t] :
        \/ /\ created' = created + 1
           /\ c = created'
        \/ /\ _pool # << >>
           /\ c = Head(_pool)
           /\ _pool' = Tail(_pool)

\* C16: callers releasing a connection at most once per acquire, no connection
\* is checked out to two callers at once and none is both in the queue and
\* checked out: every acquire hands out a connection fresh from the creator
\* or just removed from the queue.
C16_ExclusiveOwnership == [] C16_State /\ [][C16_Step]_vars

\* both tasks hold a connection, one of them taken from the queue
C16_Witness ==
    \E t, u \in Tasks :
        /\ t # u
        /\ held[u] # {}
        /\ pc[t] = "return" /\ result[t] = "got_idle" /\ held[t] # {}

\* what C20 says of every state
C20_State ==
    \A c \in closed : c \notin Held /\ ~ InQueue(c)

\* what C20 says of every step
C20_Step ==
    \A t \in Tasks : (held'[t] \ held[t]) \cap closed' = {}

\* C20: callers releasing each connection at most once, a connection on which
\* the pool has invoked close() (in a release that found the queue full, or in
\* dispose) is never in the queue afterwards and is never handed out by an
\* acquire.
C20_DestroyedStaysOut == [] C20_State /\ [][C20_Step]_vars

\* a connection was closed, the creator was called after that, and an acquire
\* has returned the new connection
C20_Witness ==
    \E t \in Tasks :
        /\ pc[t] = "return" /\ result[t] = "got_new"
        /\ \E c \in held[t] : \E d \in closed : d < c

\* what C19 says of every state
C19_State ==
    \A t \in Tasks :
        (pc[t] = "return" /\ result[t] = "timeout")
            => (wait[t] /\ _max_overflow > -1 /\ calls[t] = 0)

\* what C19 says of every step
C19_Step ==
    \A t \in Tasks :
        /\ (Leaves(t, "waiting") /\ pc'[t] = "empty") => _pool = << >>
        /\ (Leaves(t, "empty") /\ result'[t] = "timeout")
              => (wait[t] /\ _max_overflow > -1 /\ _overflow >= _max_overflow)
        /\ (Leaves(t, "empty") /\ wait[t] /\ _overflow < _max_overflow)
              => (pc'[t] = "inc" /\ result'[t] = "running")
        /\ (Leaves(t, "inc") /\ _max_overflow > -1 /\ _overflow < _max_overflow)
              => pc'[t] = "inc_add"
        /\ Leaves(t, "inc_add")
              => (_overflow' = _overflow + 1 /\ pc'[t] = "create")

\* C19: TimeoutError is raised only by a _do_get that blocked in get(True,
\* timeout), whose get ended with the queue empty, and that finds
\* max_overflow > -1 and overflow >= max_overflow when it re-checks; if it
\* finds overflow < max_overflow instead, it goes to _inc_overflow and, once
\* that has incremented, to the creator.
C19_TimeoutOnlyAfterWait == [] C19_State /\ [][C19_Step]_vars

\* a _do_get that blocked, found overflow below the bound when its wait was
\* over (a dispose() had reset it) and returned a new connection
C19_Witness ==
    \E t \in Tasks :
        /\ pc[t] = "return" /\ result[t] = "got_new" /\ wait[t]
        /\ calls[t] = 1

\* the ways a _do_get ends in this model
AcquireResults ==
    {"got_idle", "got_new", "timeout", "creation_error", "returned_None"}

\* C17: every _do_get ends, and ends in one of three ways: it returns a
\* connection, raises TimeoutError, or propagates the error of the creator.
\* Checked here for the _do_gets that have ended.
C17_AcquireEndsThreeWays ==
    \A t \in Tasks :
        (pc[t] = "return" /\ result[t] \in AcquireResults)
            => \/ result[t] \in {"got_idle", "got_new"} /\ held[t] # {}
               \/ result[t] = "timeout" /\ wait[t]
               \/ result[t] = "creation_error" /\ calls[t] = 1

\* tasks blocked in get(True, timeout)
Waiters == { w \in Tasks : pc[w] = "waiting" }

\* C18 as stated: while some _do_get is blocked in get(True, timeout), a
\* connection that leaves the queue goes to a blocked _do_get.
C18_WaiterServed ==
    [][ (Waiters # {} /\ _pool # << >> /\ _pool' = Tail(_pool))
           => \E w \in Waiters : Head(_pool) \in held'[w] ]_vars

\* what C18 says of every step, once amended
C18_Step ==
    \A w \in Tasks :
        /\ Leaves(w, "waiting")
              => \/ /\ _pool = << >>
                    /\ pc'[w] = "empty" /\ _pool' = _pool
                 \/ /\ _pool # << >>
                    /\ Head(_pool) \in held'[w] /\ _pool' = Tail(_pool)
                    /\ pc'[w] = "return" /\ result'[w] = "got_idle"
                    /\ created' = created /\ _overflow' = _overflow
        /\ ( /\ Waiters = {w}
             /\ \A u \in Tasks \ {w} :
                   pc[u] \in {"idle", "put", "close", "finally", "return"}
             /\ _pool # << >> /\ _pool' = Tail(_pool) )
              => Head(_pool) \in held'[w]

\* C18: a _do_get blocked in get(True, timeout) while the queue is not empty
\* cannot time out: when it runs it returns the head of the queue, without
\* TimeoutError and without calling the creator.  The connection another task
\* has released goes to whichever get runs first, which may be that of a
\* _do_get that was not blocked or that of dispose(); the single waiter gets
\* it if no such call is under way.
C18_WaiterOrBarger == [][C18_Step]_vars

\* a release has put a connection into the queue while a _do_get is blocked
C18_Witness ==
    \E w, r \in Tasks :
        /\ pc[w] = "waiting" /\ _pool # << >>
        /\ pc[r] = "return" /\ result[r] = "put_idle"

=============================================================================
